---- MODULE Spec2Model ----
(***************************************************************************)
(* A model of the Pyxis MCP server: the transport client (client.py), the  *)
(* result envelopes (models.py) and the eight tool operations (server.py). *)
(*                                                                         *)
(* Strings are sequences of one-character strings, so that strip() and     *)
(* truthiness are computed and not assumed.  An Optional[str] is a record  *)
(* [none, v]; None is the record with none = TRUE.                         *)
(***************************************************************************)
EXTENDS Integers, Sequences, FiniteSets, TLC

VARIABLES
    _client,    \* server.py: the module-level shared client (NoClient: None)
    env,        \* the PYXIS_API_KEY environment variable, as os.getenv reads it
    clients,    \* every PyxisClient object constructed so far
    tasks,      \* the tool invocations (coroutines) and where each stands
    wire,       \* the credential header of every request put on the wire
    outcome,    \* _make_request: what the transport did with the last request
    reply,      \* _make_request: what it returned or raised for that outcome
    args,       \* the arguments of the last search call (tool or client level)
    params,     \* the query parameters that call handed to the request primitive
    envelope,   \* the last result envelope constructed, with its has_more
    run,        \* one tool (or formatter) run taken alone: its inputs
    output      \* that run's requests and the lines of the text it returned

vars ==
    <<_client, env, clients, tasks, wire, outcome, reply, args, params, envelope, run, output>>

toolVars == <<_client, env, clients, tasks, wire>>
requestVars == <<outcome, reply>>
searchVars == <<args, params>>
runVars == <<run, output>>

-----------------------------------------------------------------------------
(* Bounds of the model *)

\* Number of tool invocations that may be in flight at once.
NTasks == 2
\* Longest free-text query / id string drawn as an input.
MaxLen == 2
\* Longest string drawn for the other string inputs (ids, secondary filters).
MaxShortLen == 1
\* Integers are drawn this far around 0 and around the page-size cap.
IntSpan == 2

-----------------------------------------------------------------------------
(* Python values *)

\* The characters strings are made of; Whitespace is what str.strip() removes.
Alphabet == {"a", " ", "\t"}
Whitespace == {" ", "\t"}
\* The other string inputs are drawn over a letter and the blank.
ShortAlphabet == {"a", " "}

RECURSIVE StringsUpTo(_, _)
StringsUpTo(n, chars) ==
    IF n = 0 THEN {<<>>}
    ELSE LET shorter == StringsUpTo(n - 1, chars)
         IN  shorter \cup {Append(s, c) : s \in {x \in shorter : Len(x) = n - 1}, c \in chars}

Strings == StringsUpTo(MaxLen, Alphabet)
ShortStrings == StringsUpTo(MaxShortLen, ShortAlphabet)

None == [none |-> TRUE, v |-> <<>>]
Some(s) == [none |-> FALSE, v |-> s]
Optional(S) == {None} \cup {Some(s) : s \in S}

\* Python truthiness of an Optional[str]: None and "" are falsy.
Truthy(o) == ~o.none /\ o.v # <<>>

\* a or b
PyOr(a, b) == IF Truthy(a) THEN a ELSE b

RECURSIVE LStrip(_)
LStrip(s) == IF s # <<>> /\ Head(s) \in Whitespace THEN LStrip(Tail(s)) ELSE s

RECURSIVE RStrip(_)
RStrip(s) ==
    IF s # <<>> /\ s[Len(s)] \in Whitespace THEN RStrip(SubSeq(s, 1, Len(s) - 1)) ELSE s

\* str.strip()
Strip(s) == RStrip(LStrip(s))

Min(a, b) == IF a < b THEN a ELSE b
Max(a, b) == IF a > b THEN a ELSE b

EmptyMap == [k \in {} |-> k]

-----------------------------------------------------------------------------
(* client.py: the error taxonomy *)

PyxisErrors == {"PyxisError", "PyxisAuthError", "PyxisConnectionError"}

\* isinstance(e, PyxisError): the base class and its two subclasses.
IsPyxisError(exc) == exc \in PyxisErrors

\* What a call produced: a value, or a raised exception with its message.
Return(v) == [kind |-> "ok", exc |-> "none", msg |-> <<>>, value |-> v]
Raise(exc, msg) == [kind |-> "raise", exc |-> exc, msg |-> msg, value |-> <<>>]

-----------------------------------------------------------------------------
(* client.py: PyxisClient.__init__ *)

NoKey == <<>>
NoClient == [id |-> 0, api_key |-> NoKey]

\* Values of the credential: unset, empty, or one of two keys.
Credentials == Optional({<<>>, <<"k">>, <<"j">>})

InitNoCheck(api_key, envval, id) ==
    Return([id |-> id, api_key |-> PyOr(api_key, envval).v])

\* self.api_key = api_key or os.getenv(...); raise PyxisAuthError when falsy;
\* the key becomes the X-API-KEY header of the client's session.
PyxisClientInit(api_key, envval, id) ==
    LET key == PyOr(api_key, envval)
    IN  IF ~Truthy(key)
        THEN Raise("PyxisAuthError", <<"No API key provided">>)
        ELSE Return([id |-> id, api_key |-> key.v])

-----------------------------------------------------------------------------
(* server.py: get_client *)

GetClientAlways(cur, envval, id) == PyxisClientInit(None, envval, id)

GetClientRefresh(cur, envval, id) ==
    IF cur = NoClient \/ Some(cur.api_key) # envval
    THEN PyxisClientInit(None, envval, id)
    ELSE Return(cur)

\* if _client is None: _client = PyxisClient(); return _client
\* The value returned is the client the caller uses; a raise leaves _client unset.
GetClient(cur, envval, id) ==
    IF cur = NoClient THEN PyxisClientInit(None, envval, id) ELSE Return(cur)

-----------------------------------------------------------------------------
(* client.py: PyxisClient._make_request *)

\* HTTP status codes the backend may answer with.
Statuses == {200, 204, 302, 399, 400, 401, 403, 404, 500, 503}

JsonKinds == {"object", "array", "string", "number", "null"}
\* The two fields the error branch looks for.
ErrKeys == {"detail", "message"}
\* The "data" entry of an object: absent, an empty list, a list of well-formed
\* entities, a list of entities without "_id", a list whose items are no objects.
DataShapes == {"absent", "empty", "entities", "no_id", "not_dicts"}

\* A response body.  isjson: response.json() parses it.  kind: the JSON value's
\* type.  keys: for an object the ErrKeys it has; for an array the ErrKeys that
\* are elements of it; for a string the ErrKeys that are substrings of it.
\* has_id, data, envelope (total/page/page_size present) describe an object.
NotJson ==
    [isjson |-> FALSE, kind |-> "null", keys |-> {}, has_id |-> FALSE,
     data |-> "absent", envelope |-> FALSE]

\* An object is an entity (with or without "_id") or an envelope (with "data").
JsonBodies ==
    [isjson : {TRUE}, kind : {"object"}, keys : SUBSET ErrKeys, has_id : BOOLEAN,
     data : {"absent"}, envelope : {FALSE}]
    \cup
    [isjson : {TRUE}, kind : {"object"}, keys : SUBSET ErrKeys, has_id : {FALSE},
     data : DataShapes \ {"absent"}, envelope : BOOLEAN]
    \cup
    [isjson : {TRUE}, kind : {"array", "string"}, keys : SUBSET ErrKeys,
     has_id : {FALSE}, data : {"absent"}, envelope : {FALSE}]
    \cup
    [isjson : {TRUE}, kind : {"number", "null"}, keys : {{}},
     has_id : {FALSE}, data : {"absent"}, envelope : {FALSE}]

Bodies == {NotJson} \cup JsonBodies

\* What the transport does with one request.
NoOutcome == [t |-> "none", status |-> 0, body |-> NotJson]
Outcomes ==
    [t : {"timeout", "connect_error", "other_error"}, status : {0}, body : {NotJson}]
    \cup [t : {"response"}, status : Statuses, body : Bodies]

\* Texts carried by a body: response.text, and the values of detail / message.
RawText == "<response.text>"
FieldText(key) == IF key = "detail" THEN "<detail>" ELSE "<message>"

\* "key in error_data" raises TypeError on a number, a boolean or null.
InRaises(body) == body.kind \in {"number", "null"}
\* error_data[key] with a string key raises TypeError on a list or a string.
IndexRaises(body) == body.kind # "object"

\* Lines 125-133: the message of the generic error for a status >= 400.
\* Any exception inside the inner try (json() failing, "in" or the subscript
\* raising TypeError) lands in "except Exception", which appends response.text;
\* error_msg is only extended after the subscript succeeded.
ErrorMsg(status, body) ==
    LET base == <<"Request failed with status", ToString(status)>>
    IN  IF ~body.isjson \/ InRaises(body) THEN base \o <<RawText>>
        ELSE IF "detail" \in body.keys
             THEN IF IndexRaises(body) THEN base \o <<RawText>>
                  ELSE base \o <<FieldText("detail")>>
        ELSE IF "message" \in body.keys
             THEN IF IndexRaises(body) THEN base \o <<RawText>>
                  ELSE base \o <<FieldText("message")>>
             ELSE base

\* Lines 110-141: the body of the outer try.
TryBody(o) ==
    IF o.t = "timeout" THEN Raise("httpx.TimeoutException", <<>>)
    ELSE IF o.t = "connect_error" THEN Raise("httpx.ConnectError", <<>>)
    ELSE IF o.t = "other_error" THEN Raise("Exception", <<>>)
    ELSE IF o.status = 401
         THEN Raise("PyxisAuthError", <<"Authentication failed. Check your API key.">>)
    ELSE IF o.status >= 400 THEN Raise("PyxisError", ErrorMsg(o.status, o.body))
    ELSE IF ~o.body.isjson THEN Raise("PyxisError", <<"Failed to parse JSON response">>)
    ELSE Return(o.body)

ExceptClausesNoReraise(r) ==
    IF r.kind = "ok" THEN r
    ELSE IF r.exc = "httpx.TimeoutException"
         THEN Raise("PyxisConnectionError", <<"Request timed out">>)
    ELSE IF r.exc = "httpx.ConnectError"
         THEN Raise("PyxisConnectionError", <<"Failed to connect">>)
    ELSE Raise("PyxisError", <<"Unexpected error during request">>)

\* Lines 143-150: the except clauses of the outer try, in order.
ExceptClauses(r) ==
    IF r.kind = "ok" THEN r
    ELSE IF r.exc = "httpx.TimeoutException"
         THEN Raise("PyxisConnectionError", <<"Request timed out">>)
    ELSE IF r.exc = "httpx.ConnectError"
         THEN Raise("PyxisConnectionError", <<"Failed to connect">>)
    ELSE IF IsPyxisError(r.exc) THEN r
    ELSE Raise("PyxisError", <<"Unexpected error during request">>)

MakeRequest(o) == ExceptClauses(TryBody(o))

-----------------------------------------------------------------------------
(* server.py: the eight tool operations *)

SearchTools ==
    {"search_images", "search_certification_projects", "search_operators",
     "search_repositories"}
IdTools ==
    {"get_image_details", "get_image_vulnerabilities",
     "get_certification_project_details", "get_operator_details"}
Tools == SearchTools \cup IdTools

\* Every exception class that arises below derives from Exception.
Exceptions == PyxisErrors \cup {"ValidationError", "TypeError", "AttributeError"}

\* What a tool invocation ended with: a returned text of some form, or a fault.
NoResult == [ret |-> "none", form |-> "none"]
Text(form) == [ret |-> "text", form |-> form]
Fault == [ret |-> "raised", form |-> "none"]

HandlerPyxisOnly(r) ==
    IF IsPyxisError(r.exc)
    THEN Text("pyxis_error")
    ELSE Fault

\* except PyxisError as e: return f"Error <doing>: {e}"
\* except Exception as e:  return f"Unexpected error: {e}"
Handler(r) ==
    IF IsPyxisError(r.exc)
    THEN Text("pyxis_error")
    ELSE IF r.exc \in Exceptions
    THEN Text("unexpected")
    ELSE Fault

RenderUnvalidated(tool, body) ==
    IF tool \in {"get_image_details", "get_certification_project_details",
                 "get_operator_details"}
    THEN IF body.kind # "object" THEN Raise("TypeError", <<>>) ELSE Return("details")
    ELSE IF body.kind # "object" THEN Raise("AttributeError", <<>>)
    ELSE IF body.data \in {"absent", "empty"} THEN Return("empty")
    ELSE IF body.data = "not_dicts" THEN Raise("AttributeError", <<>>)
    ELSE Return("listing")

\* The part of a tool after its request returned a payload: the form of the
\* text it builds, or the exception the payload makes it raise.
Render(tool, body) ==
    IF tool \in {"get_image_details", "get_certification_project_details",
                 "get_operator_details"}
    THEN \* Model(**response)
         IF body.kind # "object" THEN Raise("TypeError", <<>>)
         ELSE IF ~body.has_id THEN Raise("ValidationError", <<>>)
         ELSE Return("details")
    ELSE \* response.get("data")
         IF body.kind # "object" THEN Raise("AttributeError", <<>>)
         ELSE IF body.data \in {"absent", "empty"} THEN Return("empty")
         ELSE IF tool = "search_repositories"
         THEN \* raw dicts: repo.get(...) on each item, total defaults to 0
              IF body.data = "not_dicts" THEN Raise("AttributeError", <<>>)
              ELSE Return("listing")
         ELSE \* XSearchResults(**response); a Vulnerability has no required field
              IF ~body.envelope \/ body.data = "not_dicts" THEN Raise("ValidationError", <<>>)
              ELSE IF body.data = "no_id" /\ tool # "get_image_vulnerabilities"
              THEN Raise("ValidationError", <<>>)
              ELSE Return("listing")

\* A slot of the invoking layer: idle, a running tool suspended at its await
\* (pc = "awaiting"), or the value the last tool run in it ended with.
IdleTask == [pc |-> "idle", tool |-> "none", client |-> 0, nreq |-> 0, result |-> NoResult]
Done(nreq, result) ==
    [pc |-> "done", tool |-> "none", client |-> 0, nreq |-> nreq, result |-> result]

AfterReplyRetry(task, r) ==
    IF r.kind = "raise"
    THEN [task EXCEPT !.nreq = @ + 1]
    ELSE LET out == Render(task.tool, r.value)
         IN  Done(task.nreq, IF out.kind = "ok" THEN Text(out.value) ELSE Handler(out))

\* The tool from the point its single await returns: an error of the request goes
\* to the handlers, a payload is rendered (and a fault of that goes to the handlers).
AfterReply(task, r) ==
    IF r.kind = "raise"
    THEN Done(task.nreq, Handler(r))
    ELSE LET out == Render(task.tool, r.value)
         IN  Done(task.nreq, IF out.kind = "ok" THEN Text(out.value) ELSE Handler(out))

Tasks == 1..NTasks

\* Everything the request primitive can hand back, over all transport outcomes.
Replies == {MakeRequest(o) : o \in Outcomes}

\* Whether an id argument is blank: not image_id.strip()
Ids == ShortStrings
IsBlank(id) == Strip(id) = <<>>
Blankness == {IsBlank(id) : id \in Ids}

\* A tool up to its await: get_client(), then the request leaves with the
\* client's session headers.  A failing construction goes to the handlers.
Begin(t, tool) ==
    LET g == GetClient(_client, env, Cardinality(clients) + 1)
    IN  IF g.kind = "raise"
        THEN /\ tasks' = [tasks EXCEPT ![t] = Done(0, Handler(g))]
             /\ UNCHANGED <<_client, clients, wire>>
        ELSE /\ _client' = g.value
             /\ clients' = clients \cup {g.value}
             /\ wire' = wire \cup {[client |-> g.value.id, x_api_key |-> g.value.api_key]}
             /\ tasks' = [tasks EXCEPT ![t] =
                    [pc |-> "awaiting", tool |-> tool, client |-> g.value.id,
                     nreq |-> 1, result |-> NoResult]]

\* search_images, search_certification_projects, search_operators,
\* search_repositories: the first statement of the try is get_client().
SearchStart(t) ==
    /\ tasks[t].pc \in {"idle", "done"}
    /\ \E tool \in SearchTools : Begin(t, tool)
    /\ UNCHANGED <<env, requestVars, searchVars, envelope, runVars>>

\* get_image_details, get_image_vulnerabilities, get_certification_project_details,
\* get_operator_details: a blank id returns before get_client() is called.
IdStart(t) ==
    /\ tasks[t].pc \in {"idle", "done"}
    /\ \E tool \in IdTools, blank \in Blankness :
          IF blank
          THEN /\ tasks' = [tasks EXCEPT ![t] = Done(0, Text("required"))]
               /\ UNCHANGED <<_client, clients, wire>>
          ELSE Begin(t, tool)
    /\ UNCHANGED <<env, requestVars, searchVars, envelope, runVars>>

\* The awaited request completes, with any outcome, and the tool runs to its end.
Complete(t) ==
    /\ tasks[t].pc = "awaiting"
    /\ \E r \in Replies : tasks' = [tasks EXCEPT ![t] = AfterReply(tasks[t], r)]
    /\ UNCHANGED <<_client, env, clients, wire, requestVars, searchVars, envelope, runVars>>

\* The environment variable is the process's: it may be set or cleared between steps.
SetEnv ==
    /\ \E v \in Credentials : env' = v /\ v # env
    /\ UNCHANGED <<_client, clients, tasks, wire, requestVars, searchVars, envelope, runVars>>

-----------------------------------------------------------------------------
(* client.py and server.py: the parameters of a search request *)

\* The cap of the client's search operations: min(page_size, 100).
MaxPageSize == 100
\* The range the tools clamp max_results to: min(max(max_results, 1), 100).
MinResults == 1
MaxResults == 100
\* The default of page_size, and of page.
DefaultPageSize == 20
DefaultPage == 0

\* Integer inputs: around 0, around the cap, and the default.
Ints ==
    ((0 - IntSpan)..IntSpan) \cup ((MaxPageSize - IntSpan)..(MaxPageSize + IntSpan))
    \cup {DefaultPageSize}

\* Optional[bool]
NoneBool == [none |-> TRUE, v |-> FALSE]
SomeBool(b) == [none |-> FALSE, v |-> b]
OptionalBools == {NoneBool, SomeBool(TRUE), SomeBool(FALSE)}

\* The field the free-text query is matched against, per search operation.
FilterField(op) ==
    IF op = "search_images" THEN "repositories.repository"
    ELSE IF op = "search_certification_projects" THEN "name"
    ELSE IF op = "search_operators" THEN "bundle_path"
    ELSE "repository"

\* f"<field>=match={query}"
FilterExpr(op, q) == <<FilterField(op), "=match=">> \o q

\* if value: params[key] = value
IfTruthy(key, o) == IF Truthy(o) THEN key :> o.v ELSE EmptyMap

PageSizeUncapped(page_size) == page_size

\* "page_size": min(page_size, 100)
PageSize(page_size) == Min(page_size, MaxPageSize)

\* if query: params["filter"] = f"<field>=match={query}"
Filter(op, query) ==
    IF Truthy(query) THEN "filter" :> FilterExpr(op, query.v) ELSE EmptyMap

\* The call a search makes: every argument an Optional, as the client takes them.
SearchArgs(level, op, query, architecture, registry, status, package, certified, n) ==
    [level |-> level, op |-> op, query |-> query, architecture |-> architecture,
     registry |-> registry, status |-> status, package |-> package,
     certified |-> certified, n |-> n]

\* PyxisClient.search_images / search_certification_projects / search_operators /
\* search_repositories: the params dict handed to self.get(path, params).
ClientParams(a) ==
    ("page" :> DefaultPage) @@ ("page_size" :> PageSize(a.n)) @@ Filter(a.op, a.query)
    @@ (IF a.op = "search_images"
        THEN IfTruthy("architecture", a.architecture) @@ IfTruthy("registry", a.registry)
             @@ (IF ~a.certified.none THEN "certified" :> a.certified.v ELSE EmptyMap)
        ELSE IF a.op = "search_certification_projects"
        THEN IfTruthy("certification_status", a.status)
        ELSE IF a.op = "search_operators"
        THEN IfTruthy("package", a.package)
        ELSE IfTruthy("registry", a.registry))

CleanNoStrip(s) == IF s # <<>> THEN Some(s) ELSE None

\* x = x.strip() if x else None
Clean(s) == IF s # <<>> THEN Some(Strip(s)) ELSE None

ClampNoFloor(max_results) == Min(max_results, MaxResults)

\* max_results = min(max(max_results, 1), 100)
Clamp(max_results) == Min(Max(max_results, MinResults), MaxResults)

CertifiedFilterAsGiven(certified) == SomeBool(certified)

\* certified_filter = certified if certified else None
CertifiedFilter(certified) == IF certified THEN SomeBool(TRUE) ELSE NoneBool

\* The "clean up parameters" block of a search tool: the call it makes on the
\* client.  a holds the tool's own arguments (strings as Some(s), a plain bool).
ToolCall(a) ==
    SearchArgs("client", a.op, Clean(a.query.v),
               IF a.architecture.none THEN None ELSE Clean(a.architecture.v),
               IF a.registry.none THEN None ELSE Clean(a.registry.v),
               IF a.status.none THEN None ELSE Clean(a.status.v),
               IF a.package.none THEN None ELSE Clean(a.package.v),
               IF a.certified.none THEN NoneBool ELSE CertifiedFilter(a.certified.v),
               Clamp(a.n))

\* The params a call produces, at either level.
ParamsOf(a) == IF a.level = "tool" THEN ClientParams(ToolCall(a)) ELSE ClientParams(a)

\* The arguments of a search tool: strings, a bool, an integer.
IsToolArgs(a) ==
    \E q \in Strings, n \in Ints :
        \/ \E ar \in ShortStrings, rg \in ShortStrings, c \in BOOLEAN :
              a = SearchArgs("tool", "search_images", Some(q), Some(ar), Some(rg), None,
                             None, SomeBool(c), n)
        \/ \E st \in ShortStrings :
              a = SearchArgs("tool", "search_certification_projects", Some(q), None, None,
                             Some(st), None, NoneBool, n)
        \/ \E pk \in ShortStrings :
              a = SearchArgs("tool", "search_operators", Some(q), None, None, None,
                             Some(pk), NoneBool, n)
        \/ \E rg \in ShortStrings :
              a = SearchArgs("tool", "search_repositories", Some(q), None, Some(rg), None,
                             None, NoneBool, n)

\* The arguments of a client search operation, called directly.
IsClientArgs(a) ==
    \E q \in Optional(Strings), n \in Ints :
        \/ \E ar \in Optional(ShortStrings), rg \in Optional(ShortStrings),
              c \in OptionalBools :
              a = SearchArgs("client", "search_images", q, ar, rg, None, None, c, n)
        \/ \E st \in Optional(ShortStrings) :
              a = SearchArgs("client", "search_certification_projects", q, None, None, st,
                             None, NoneBool, n)
        \/ \E pk \in Optional(ShortStrings) :
              a = SearchArgs("client", "search_operators", q, None, None, None, pk,
                             NoneBool, n)
        \/ \E rg \in Optional(ShortStrings) :
              a = SearchArgs("client", "search_repositories", q, None, rg, None, None,
                             NoneBool, n)

NoArgs == SearchArgs("none", "none", None, None, None, None, None, NoneBool, 0)

-----------------------------------------------------------------------------
(* models.py: the result envelopes *)

EnvelopeKinds ==
    {"SearchResults", "ImageSearchResults", "ProjectSearchResults",
     "OperatorSearchResults", "VulnerabilitySearchResults"}

HasMoreInclusive(kind, page, page_size, total) == (page + 1) * page_size <= total

\* The has_more property, which each of the five envelope classes defines:
\* return (self.page + 1) * self.page_size < self.total
HasMore(kind, page, page_size, total) ==
    CASE kind = "SearchResults"              -> (page + 1) * page_size < total
      [] kind = "ImageSearchResults"         -> (page + 1) * page_size < total
      [] kind = "ProjectSearchResults"       -> (page + 1) * page_size < total
      [] kind = "OperatorSearchResults"      -> (page + 1) * page_size < total
      [] kind = "VulnerabilitySearchResults" -> (page + 1) * page_size < total

EnvelopeInts == (0 - IntSpan)..(IntSpan + 1)

\* An envelope as constructed from a payload; has_more is read afterwards.
Envelopes ==
    [kind : EnvelopeKinds, page : EnvelopeInts, page_size : EnvelopeInts,
     total : EnvelopeInts, has_more : {"unread"}]
NoEnvelope ==
    [kind |-> "none", page |-> 0, page_size |-> 0, total |-> 0, has_more |-> "unread"]

-----------------------------------------------------------------------------
(* server.py and client.py: one tool operation, from its call to its text *)

\* One line of a returned text: what it is, the label it carries, and the one
\* or two numbers it prints.
Line(t, label, n, m) == [t |-> t, label |-> label, n |-> n, m |-> m]
NoRun == [tool |-> "none"]
NoOut == [ran |-> FALSE, requests |-> <<>>, lines |-> <<>>]
Ran(requests, lines) == [ran |-> TRUE, requests |-> requests, lines |-> lines]

\* The default of a search tool's max_results.
DefaultMaxResults == 20

\* The argument of an id tool, as its "Error: <argument> is required" names it.
ArgName(tool) ==
    CASE tool = "get_image_details"                 -> "image_id"
      [] tool = "get_image_vulnerabilities"         -> "image_id"
      [] tool = "get_certification_project_details" -> "project_id"
      [] tool = "get_operator_details"              -> "operator_id"

\* The words of a tool's "Error <doing>: {e}" text.
Doing(tool) ==
    CASE tool = "search_images"                     -> "searching images"
      [] tool = "get_image_details"                 -> "getting image details"
      [] tool = "get_image_vulnerabilities"         -> "getting vulnerabilities"
      [] tool = "search_certification_projects"     -> "searching certification projects"
      [] tool = "get_certification_project_details" -> "getting project details"
      [] tool = "search_operators"                  -> "searching operators"
      [] tool = "get_operator_details"              -> "getting operator details"
      [] tool = "search_repositories"               -> "searching repositories"

\* The text a tool returns for a result of the given form; a fault returns none.
TextOf(tool, result) ==
    IF result.ret # "text" THEN <<>>
    ELSE IF result.form = "required" THEN <<Line("required", ArgName(tool), 0, 0)>>
    ELSE IF result.form = "pyxis_error" THEN <<Line("pyxis_error", Doing(tool), 0, 0)>>
    ELSE <<Line(result.form, "", 0, 0)>>

\* PyxisClient.get: a GET of the endpoint; params is None unless given.
NoParams == [none |-> TRUE, v |-> EmptyMap]
Get(endpoint, query) == [method |-> "GET", endpoint |-> endpoint, params |-> query]

\* get_image_by_id, get_image_vulnerabilities, get_certification_project,
\* get_operator_by_id: the endpoint is an f-string around the id.
IdEndpoint(tool, id) ==
    CASE tool = "get_image_details"                 -> <<"images/">> \o id
      [] tool = "get_image_vulnerabilities"         ->
            <<"images/">> \o id \o <<"/vulnerabilities">>
      [] tool = "get_certification_project_details" ->
            <<"projects/certification/">> \o id
      [] tool = "get_operator_details"              -> <<"operators/">> \o id

\* The path of a search operation.
SearchPath(tool) ==
    CASE tool = "search_images"                 -> <<"images">>
      [] tool = "search_certification_projects" -> <<"projects/certification">>
      [] tool = "search_operators"              -> <<"operators">>
      [] tool = "search_repositories"           -> <<"repositories">>

IdCallNoStrip(tool, id) == Get(IdEndpoint(tool, id), NoParams)

\* response = await client.get_image_by_id(image_id.strip()), and its like.
IdCall(tool, id) == Get(IdEndpoint(tool, Strip(id)), NoParams)

\* A search tool called with no argument given: every default.
DefaultArgs(tool) ==
    CASE tool = "search_images" ->
            SearchArgs("tool", tool, Some(<<>>), Some(<<>>), Some(<<>>), None, None,
                       SomeBool(FALSE), DefaultMaxResults)
      [] tool = "search_certification_projects" ->
            SearchArgs("tool", tool, Some(<<>>), None, None, Some(<<>>), None,
                       NoneBool, DefaultMaxResults)
      [] tool = "search_operators" ->
            SearchArgs("tool", tool, Some(<<>>), None, None, None, Some(<<>>),
                       NoneBool, DefaultMaxResults)
      [] tool = "search_repositories" ->
            SearchArgs("tool", tool, Some(<<>>), None, Some(<<>>), None, None,
                       NoneBool, DefaultMaxResults)

\* A whole tool operation run alone in a fresh process: r.tool is called with
\* the id r.id (id tools) or with its defaults (search tools), the environment
\* holds r.env, and the request, if one is made, ends as r.reply.
ToolRun(r) ==
    IF r.tool \in IdTools /\ IsBlank(r.id)
    THEN Ran(<<>>, TextOf(r.tool, Text("required")))
    ELSE LET g == GetClient(NoClient, r.env, 1)
         IN  IF g.kind = "raise"
             THEN Ran(<<>>, TextOf(r.tool, Handler(g)))
             ELSE LET req == IF r.tool \in IdTools
                             THEN IdCall(r.tool, r.id)
                             ELSE Get(SearchPath(r.tool),
                                      [none |-> FALSE, v |-> ParamsOf(DefaultArgs(r.tool))])
                      task == [pc |-> "awaiting", tool |-> r.tool, client |-> g.value.id,
                               nreq |-> 1, result |-> NoResult]
                  IN  Ran(<<req>>, TextOf(r.tool, AfterReply(task, r.reply).result))

-----------------------------------------------------------------------------
(* server.py: get_image_vulnerabilities, from the payload to the text *)

\* The most vulnerabilities listed under one severity header.
GroupCap == 10

\* The severity of a vulnerability: absent (None), the empty string, one of the
\* five labels the tool knows, or another literal.
NoSeverity == "<None>"
Severities == {NoSeverity, "", "Critical", "High", "Medium", "Low", "Unknown", "Moderate"}

\* severity = vuln.severity or "Unknown"
SeverityOr(severity) == IF severity \in {NoSeverity, ""} THEN "Unknown" ELSE severity

\* severity_order = ["Critical", "High", "Medium", "Low", "Unknown"]
severity_order == <<"Critical", "High", "Medium", "Low", "Unknown">>

\* severity_groups[severity]: the vulnerabilities of vulns (by their position
\* in the list) under one key, in the order of the list.
SeverityGroup(vulns, severity) ==
    LET InGroup(i) == SeverityOr(vulns[i]) = severity
    IN  SelectSeq([i \in 1..Len(vulns) |-> i], InGroup)

\* The first n items of a list: data[:n] for n >= 0.
Take(s, n) == SubSeq(s, 1, Min(Len(s), n))

RECURSIVE InsertionOrder(_)
InsertionOrder(vulns) ==
    IF vulns = <<>> THEN <<>>
    ELSE LET rest == InsertionOrder(Take(vulns, Len(vulns) - 1))
             key == SeverityOr(vulns[Len(vulns)])
         IN  IF \E i \in 1..Len(rest) : rest[i] = key THEN rest ELSE Append(rest, key)

GroupsAsInserted(vulns) == InsertionOrder(vulns)

\* for severity in severity_order: if severity in severity_groups
GroupsShown(vulns) ==
    LET Present(severity) == SeverityGroup(vulns, severity) # <<>>
    IN  SelectSeq(severity_order, Present)

\* The header of one group, its first ten members, the count of the others.
GroupLines(vulns, severity) ==
    LET group == SeverityGroup(vulns, severity)
    IN  <<Line("group", severity, Len(group), 0)>>
        \o [k \in 1..Min(Len(group), GroupCap) |-> Line("item", severity, group[k], 0)]
        \o (IF Len(group) > GroupCap
            THEN <<Line("more_in_group", severity, Len(group) - GroupCap, 0)>>
            ELSE <<>>)
        \o <<Line("blank", "", 0, 0)>>

RECURSIVE AllGroupLines(_, _)
AllGroupLines(vulns, severities) ==
    IF severities = <<>> THEN <<>>
    ELSE GroupLines(vulns, Head(severities)) \o AllGroupLines(vulns, Tail(severities))

\* The text for a payload that validates: r.data is the list of the
\* vulnerabilities' severities, r.total the envelope's total.
VulnerabilityLines(r) ==
    IF r.data = <<>>
    THEN <<Line("empty", "vulnerabilities", 0, 0)>>
    ELSE LET max_results == Clamp(r.max_results)
             vulns == Take(r.data, max_results)
         IN  <<Line("title", "", 0, 0), Line("rule", "", 0, 0),
               Line("found", "vulnerabilities", r.total, Len(vulns)),
               Line("blank", "", 0, 0)>>
             \o AllGroupLines(vulns, GroupsShown(vulns))
             \o (IF r.total > max_results
                 THEN <<Line("more", "vulnerabilities", r.total - max_results, 0)>>
                 ELSE <<>>)

-----------------------------------------------------------------------------
(* models.py: format_image_summary *)

\* The most repositories a summary names.
SummaryRepoCap == 3

\* A repository as the summary reads it: whether its registry, and its
\* repository name, are set and non-empty.
Repositories == [registry : BOOLEAN, repository : BOOLEAN]

RepoStrsUnchecked(repositories) ==
    [i \in 1..Min(Len(repositories), SummaryRepoCap) |-> i]

\* for repo in image.repositories[:3]: if repo.registry and repo.repository:
\* repo_strs.append(...); the pairs are named by their position in the list.
RepoStrs(repositories) ==
    LET HasBoth(i) == repositories[i].registry /\ repositories[i].repository
    IN  SelectSeq([i \in 1..Min(Len(repositories), SummaryRepoCap) |-> i], HasBoth)

\* The pieces of the summary line, in order: the id, the pairs, the count of
\* further repositories, the architecture, the certification mark.
FormatImageSummary(image) ==
    LET repo_strs == RepoStrs(image.repositories)
    IN  <<Line("id", "", 0, 0)>>
        \o (IF image.repositories # <<>> /\ repo_strs # <<>>
            THEN [k \in 1..Len(repo_strs) |-> Line("pair", "", repo_strs[k], 0)]
                 \o (IF Len(image.repositories) > SummaryRepoCap
                     THEN <<Line("more_repositories", "",
                                 Len(image.repositories) - SummaryRepoCap, 0)>>
                     ELSE <<>>)
            ELSE <<>>)
        \o (IF image.architecture THEN <<Line("architecture", "", 0, 0)>> ELSE <<>>)
        \o <<Line(IF image.certified THEN "certified" ELSE "not_certified", "", 0, 0)>>

-----------------------------------------------------------------------------
(* server.py: the search tools, from the payload to the text *)

\* The <kind> of a search tool's texts.
Kind(tool) ==
    CASE tool = "search_images"                 -> "images"
      [] tool = "search_certification_projects" -> "certification projects"
      [] tool = "search_operators"              -> "operators"
      [] tool = "search_repositories"           -> "repositories"

\* The envelope a search tool validates its payload into.
EnvelopeOf(tool) ==
    CASE tool = "search_images"                 -> "ImageSearchResults"
      [] tool = "search_certification_projects" -> "ProjectSearchResults"
      [] tool = "search_operators"              -> "OperatorSearchResults"

IsEmptyByTotal(r) == r.total = 0

\* if not response.get("data"): no data entry, or an empty list.
IsEmpty(r) == ~r.has_data \/ r.ndata = 0

ShowsMoreByCount(r) == r.total > r.ndata

\* if results.has_more: for the three validating tools;
\* if total > len(data): for search_repositories.
ShowsMore(r) ==
    IF r.tool = "search_repositories"
    THEN r.total > r.ndata
    ELSE HasMore(EnvelopeOf(r.tool), r.page, r.page_size, r.total)

\* The lines of one entity: its bullet and, where the tool prints them and the
\* entity has them (r.extras), its further lines and the blank line after it.
EntityLines(r, i) ==
    <<Line("item", Kind(r.tool), i, 0)>>
    \o (CASE r.tool = "search_images" -> <<>>
          [] r.tool = "search_certification_projects" ->
                (IF r.extras THEN <<Line("detail", "short_description", i, 0)>> ELSE <<>>)
                \o <<Line("blank", "", 0, 0)>>
          [] r.tool = "search_operators" ->
                (IF r.extras
                 THEN <<Line("detail", "organization", i, 0),
                        Line("detail", "bundle_path", i, 0)>>
                 ELSE <<>>)
                \o <<Line("blank", "", 0, 0)>>
          [] r.tool = "search_repositories" ->
                (IF r.extras
                 THEN <<Line("detail", "push_date", i, 0), Line("detail", "tags", i, 0)>>
                 ELSE <<>>)
                \o <<Line("blank", "", 0, 0)>>)

RECURSIVE EntitiesLines(_, _)
EntitiesLines(r, n) ==
    IF n = 0 THEN <<>> ELSE EntitiesLines(r, n - 1) \o EntityLines(r, n)

\* The text of a search tool for a payload that validates: r.ndata entities in
\* its data list (r.has_data: the entry exists), and r.total, r.page,
\* r.page_size.  Every entity of the list is printed.
SearchLines(r) ==
    IF IsEmpty(r)
    THEN <<Line("empty", Kind(r.tool), 0, 0)>>
    ELSE <<Line("found", Kind(r.tool), r.total, r.ndata), Line("blank", "", 0, 0)>>
         \o EntitiesLines(r, r.ndata)
         \o (IF ShowsMore(r)
             THEN (IF r.tool = "search_images" THEN <<Line("blank", "", 0, 0)>> ELSE <<>>)
                  \o <<Line("more", "results", r.total - r.ndata, 0)>>
             ELSE <<>>)

-----------------------------------------------------------------------------
(* The tool operations, running concurrently on one event loop *)

Pending == [kind |-> "pending", exc |-> "none", msg |-> <<>>, value |-> NotJson]

Init ==
    /\ _client = NoClient
    /\ env \in Credentials
    /\ clients = {}
    /\ tasks = [t \in Tasks |-> IdleTask]
    /\ wire = {}
    /\ outcome = NoOutcome
    /\ reply = Pending
    /\ args = NoArgs
    /\ params = EmptyMap
    /\ envelope = NoEnvelope
    /\ run = NoRun
    /\ output = NoOut

Next ==
    \/ \E t \in Tasks : SearchStart(t)
    \/ \E t \in Tasks : IdStart(t)
    \/ \E t \in Tasks : Complete(t)
    \/ SetEnv

Spec == Init /\ [][Next]_vars

-----------------------------------------------------------------------------
(* The request primitive, applied to every transport outcome *)

InitRequest ==
    /\ _client = NoClient /\ env = None /\ clients = {} /\ wire = {}
    /\ tasks = [t \in Tasks |-> IdleTask]
    /\ outcome \in Outcomes
    /\ reply = Pending
    /\ args = NoArgs /\ params = EmptyMap /\ envelope = NoEnvelope
    /\ run = NoRun /\ output = NoOut

\* _make_request runs on the outcome and returns or raises.
Request ==
    /\ reply = Pending
    /\ reply' = MakeRequest(outcome)
    /\ UNCHANGED <<toolVars, outcome, searchVars, envelope, runVars>>

NextRequest == Request

SpecRequest == InitRequest /\ [][NextRequest]_vars

-----------------------------------------------------------------------------
(* The search operations, applied to every argument list *)

InitSearch ==
    /\ _client = NoClient /\ env = None /\ clients = {} /\ wire = {}
    /\ tasks = [t \in Tasks |-> IdleTask]
    /\ outcome = NoOutcome /\ reply = Pending
    /\ (IsToolArgs(args) \/ IsClientArgs(args))
    /\ params = EmptyMap
    /\ envelope = NoEnvelope
    /\ run = NoRun /\ output = NoOut

\* A search tool runs up to its request: the params it sends.
ToolSearch ==
    /\ args.level = "tool"
    /\ params = EmptyMap
    /\ params' = ParamsOf(args)
    /\ UNCHANGED <<toolVars, requestVars, args, envelope, runVars>>

\* A client search operation, called directly, runs up to its request.
ClientSearch ==
    /\ args.level = "client"
    /\ params = EmptyMap
    /\ params' = ParamsOf(args)
    /\ UNCHANGED <<toolVars, requestVars, args, envelope, runVars>>

NextSearch == ToolSearch \/ ClientSearch

SpecSearch == InitSearch /\ [][NextSearch]_vars

-----------------------------------------------------------------------------
(* The envelopes, over every page / page_size / total *)

InitEnvelope ==
    /\ _client = NoClient /\ env = None /\ clients = {} /\ wire = {}
    /\ tasks = [t \in Tasks |-> IdleTask]
    /\ outcome = NoOutcome /\ reply = Pending
    /\ args = NoArgs /\ params = EmptyMap
    /\ envelope \in Envelopes
    /\ run = NoRun /\ output = NoOut

\* results.has_more is read.
ReadHasMore ==
    /\ envelope.has_more = "unread"
    /\ envelope' = [envelope EXCEPT !.has_more =
            IF HasMore(envelope.kind, envelope.page, envelope.page_size, envelope.total)
            THEN "True" ELSE "False"]
    /\ UNCHANGED <<toolVars, requestVars, searchVars, runVars>>

NextEnvelope == ReadHasMore

SpecEnvelope == InitEnvelope /\ [][NextEnvelope]_vars

-----------------------------------------------------------------------------
(* One tool operation, over every tool, id, credential and reply *)

InitRun ==
    /\ _client = NoClient /\ env = None /\ clients = {} /\ wire = {}
    /\ tasks = [t \in Tasks |-> IdleTask]
    /\ outcome = NoOutcome /\ reply = Pending
    /\ args = NoArgs /\ params = EmptyMap
    /\ envelope = NoEnvelope
    /\ \E e \in Credentials, r \in Replies :
          \/ \E tool \in IdTools, id \in Strings :
                run = [tool |-> tool, id |-> id, env |-> e, reply |-> r]
          \/ \E tool \in SearchTools :
                run = [tool |-> tool, id |-> <<>>, env |-> e, reply |-> r]
    /\ output = NoOut

\* The tool runs from its call to its return.
RunTool ==
    /\ ~output.ran
    /\ output' = ToolRun(run)
    /\ UNCHANGED <<toolVars, requestVars, searchVars, envelope, run>>

NextRun == RunTool

SpecRun == InitRun /\ [][NextRun]_vars

-----------------------------------------------------------------------------
(* get_image_vulnerabilities, over every list of severities *)

\* The most vulnerabilities in a payload.
MaxVulns == 3

RECURSIVE ListsUpTo(_, _)
ListsUpTo(n, S) ==
    IF n = 0 THEN {<<>>}
    ELSE LET shorter == ListsUpTo(n - 1, S)
         IN  shorter \cup {Append(l, x) : l \in {s \in shorter : Len(s) = n - 1}, x \in S}

InitVulnerabilities ==
    /\ _client = NoClient /\ env = None /\ clients = {} /\ wire = {}
    /\ tasks = [t \in Tasks |-> IdleTask]
    /\ outcome = NoOutcome /\ reply = Pending
    /\ args = NoArgs /\ params = EmptyMap
    /\ envelope = NoEnvelope
    /\ \E data \in ListsUpTo(MaxVulns, Severities), total \in EnvelopeInts,
          max_results \in EnvelopeInts :
          run = [tool |-> "get_image_vulnerabilities", data |-> data, total |-> total,
                 max_results |-> max_results]
    /\ output = NoOut

\* The tool renders the payload its request returned.
RenderVulnerabilities ==
    /\ ~output.ran
    /\ output' = Ran(<<Get(IdEndpoint(run.tool, <<"a">>), NoParams)>>, VulnerabilityLines(run))
    /\ UNCHANGED <<toolVars, requestVars, searchVars, envelope, run>>

NextVulnerabilities == RenderVulnerabilities

SpecVulnerabilities == InitVulnerabilities /\ [][NextVulnerabilities]_vars

-----------------------------------------------------------------------------
(* format_image_summary, over every list of repositories *)

\* The most repositories of an image.
MaxRepos == 4

\* An image with no repositories entry (None) is read as one with none ([]).
InitSummary ==
    /\ _client = NoClient /\ env = None /\ clients = {} /\ wire = {}
    /\ tasks = [t \in Tasks |-> IdleTask]
    /\ outcome = NoOutcome /\ reply = Pending
    /\ args = NoArgs /\ params = EmptyMap
    /\ envelope = NoEnvelope
    /\ \E repositories \in ListsUpTo(MaxRepos, Repositories), architecture \in BOOLEAN,
          certified \in BOOLEAN :
          run = [tool |-> "format_image_summary", repositories |-> repositories,
                 architecture |-> architecture, certified |-> certified]
    /\ output = NoOut

\* The summary of the image is formatted.
FormatSummary ==
    /\ ~output.ran
    /\ output' = Ran(<<>>, FormatImageSummary(run))
    /\ UNCHANGED <<toolVars, requestVars, searchVars, envelope, run>>

NextSummary == FormatSummary

SpecSummary == InitSummary /\ [][NextSummary]_vars

-----------------------------------------------------------------------------
(* The search tools, over every payload size and every total, page, page_size *)

\* The most entities in a payload's data list.
MaxData == 2

InitRender ==
    /\ _client = NoClient /\ env = None /\ clients = {} /\ wire = {}
    /\ tasks = [t \in Tasks |-> IdleTask]
    /\ outcome = NoOutcome /\ reply = Pending
    /\ args = NoArgs /\ params = EmptyMap
    /\ envelope = NoEnvelope
    /\ \E tool \in SearchTools, max_results \in EnvelopeInts, has_data \in BOOLEAN,
          ndata \in 0..MaxData, total \in EnvelopeInts, page \in EnvelopeInts,
          page_size \in EnvelopeInts, extras \in BOOLEAN :
          /\ ~has_data => ndata = 0
          /\ run = [tool |-> tool, max_results |-> max_results, has_data |-> has_data,
                    ndata |-> ndata, total |-> total, page |-> page,
                    page_size |-> page_size, extras |-> extras]
    /\ output = NoOut

\* The tool renders the payload its request returned.
RenderSearch ==
    /\ ~output.ran
    /\ output' =
          Ran(<<Get(SearchPath(run.tool),
                    [none |-> FALSE,
                     v |-> ParamsOf([DefaultArgs(run.tool) EXCEPT !.n = run.max_results])])>>,
              SearchLines(run))
    /\ UNCHANGED <<toolVars, requestVars, searchVars, envelope, run>>

NextRender == RenderSearch

SpecRender == InitRender /\ [][NextRender]_vars

-----------------------------------------------------------------------------
(* Properties *)

Sent == DOMAIN params # {}

HasToken(msg, tok) == \E i \in 1..Len(msg) : msg[i] = tok

\* Every character of q is whitespace (the empty string included).
IsWhitespaceOnly(q) == \A i \in 1..Len(q) : q[i] \in Whitespace

\* t is q without its surrounding whitespace: q is whitespace, then t, then
\* whitespace, and t neither starts nor ends with a whitespace character.
IsTrimOf(t, q) ==
    \E i \in 1..Len(q), j \in 1..Len(q) :
        /\ i <= j
        /\ t = SubSeq(q, i, j)
        /\ q[i] \notin Whitespace /\ q[j] \notin Whitespace
        /\ \A k \in 1..(i - 1) : q[k] \in Whitespace
        /\ \A k \in (j + 1)..Len(q) : q[k] \in Whitespace

\* C1: a tool operation that has ended has returned a text, whatever client
\* construction, the backend call and payload validation did; it never ends
\* with a raised fault, and a suspended tool can always run to its end.
C1_ToolsAlwaysReturnText ==
    \A t \in Tasks :
        /\ tasks[t].pc = "done" => tasks[t].result.ret = "text"
        /\ tasks[t].pc = "awaiting" => ENABLED Complete(t)

\* C1 witness: a tool ended through the catch-all, with the "Unexpected error" text.
C1_Witness ==
    \E t \in Tasks : tasks[t].pc = "done" /\ tasks[t].result = Text("unexpected")

\* C2: _make_request classifies each outcome: timeout and connection failure
\* raise PyxisConnectionError, status 401 raises PyxisAuthError, any other status
\* >= 400 the generic PyxisError, a success status with a non-JSON body the
\* generic PyxisError, and otherwise the parsed JSON is returned unchanged.
C2_Classification ==
    reply.kind # "pending" =>
        /\ outcome.t \in {"timeout", "connect_error"} =>
              reply.kind = "raise" /\ reply.exc = "PyxisConnectionError"
        /\ outcome.t = "response" =>
              IF outcome.status = 401
              THEN reply.kind = "raise" /\ reply.exc = "PyxisAuthError"
              ELSE IF outcome.status >= 400 \/ ~outcome.body.isjson
              THEN reply.kind = "raise" /\ reply.exc = "PyxisError"
              ELSE reply.kind = "ok" /\ reply.value = outcome.body

\* C2 witness: a 401 response has come out of the primitive as PyxisAuthError.
C2_Witness ==
    /\ outcome.t = "response" /\ outcome.status = 401
    /\ reply.kind = "raise" /\ reply.exc = "PyxisAuthError"

\* C3: at most one client object is ever constructed, the shared reference is
\* that object once set, and every tool suspended at its request uses it.
C3_AtMostOneClient ==
    /\ Cardinality(clients) <= 1
    /\ _client # NoClient => clients = {_client}
    /\ _client = NoClient => clients = {}
    /\ \A t \in Tasks : tasks[t].pc = "awaiting" => tasks[t].client = _client.id

\* C3 witness: two tool operations are suspended at once, on the one client.
C3_Witness ==
    /\ Cardinality(clients) = 1
    /\ \E t1 \in Tasks, t2 \in Tasks :
          /\ t1 # t2
          /\ tasks[t1].pc = "awaiting" /\ tasks[t2].pc = "awaiting"
          /\ tasks[t1].client = tasks[t2].client

\* C4: a tool invocation issues at most one request: exactly one while it is
\* suspended, none when it returned before its request, and it has ended with
\* one request on record when the request failed.
C4_AtMostOneRequest ==
    \A t \in Tasks :
        /\ tasks[t].nreq <= 1
        /\ tasks[t].pc = "awaiting" => tasks[t].nreq = 1
        /\ tasks[t].pc = "idle" => tasks[t].nreq = 0
        /\ tasks[t].pc = "done" /\ tasks[t].result = Text("required") => tasks[t].nreq = 0

\* C4 witness: a request failed and the tool ended with the error text, having
\* issued one request.
C4_Witness ==
    \E t \in Tasks :
        /\ tasks[t].pc = "done" /\ tasks[t].nreq = 1
        /\ tasks[t].result = Text("pyxis_error")

\* C5: every request on the wire carries a non-empty credential header; a client
\* exists only with a non-empty key; construction succeeds exactly when the
\* parameter or the environment supplies a non-empty value, and raises
\* PyxisAuthError otherwise; with no client, nothing has been sent.
C5_CredentialOnEveryRequest ==
    /\ \A w \in wire : w.x_api_key # NoKey
    /\ \A c \in clients : c.api_key # NoKey
    /\ clients = {} => wire = {}
    /\ \A k \in Credentials :
          LET r == PyxisClientInit(k, env, 1)
          IN  IF Truthy(k) \/ Truthy(env)
              THEN r.kind = "ok" /\ r.value.api_key # NoKey
              ELSE r.kind = "raise" /\ r.exc = "PyxisAuthError"

\* C5 witness: a request is on the wire with its key while the environment no
\* longer supplies one, and another tool ended on a failed construction, having
\* sent nothing.
C5_Witness ==
    /\ ~Truthy(env)
    /\ \E w \in wire : w.x_api_key # NoKey
    /\ \E t \in Tasks : tasks[t].pc = "awaiting"
    /\ \E t \in Tasks :
          tasks[t].pc = "done" /\ tasks[t].nreq = 0 /\ tasks[t].result = Text("pyxis_error")

\* C6: a search tool sends page_size = 100 when max_results > 100, 1 when
\* max_results < 1, and max_results otherwise.
C6_ToolPageSize ==
    (Sent /\ args.level = "tool") =>
        params["page_size"] =
            IF args.n > 100 THEN 100 ELSE IF args.n < 1 THEN 1 ELSE args.n

\* C6 witness: a search tool was called with max_results < 1 and sent 1.
C6_Witness ==
    Sent /\ args.level = "tool" /\ args.n < 1 /\ params["page_size"] = 1

\* C7 as stated: a client search operation called directly sends page_size = 100
\* when page_size > 100 and 1 when page_size < 1, so a value in 1..100.
C7_ClientClampsBothEnds ==
    (Sent /\ args.level = "client") =>
        /\ args.n > 100 => params["page_size"] = 100
        /\ args.n < 1 => params["page_size"] = 1
        /\ params["page_size"] \in 1..100

\* C7 as amended: a client search operation called directly sends
\* min(page_size, 100): 100 when page_size > 100 and page_size itself
\* otherwise, values below 1 included; the value sent never exceeds 100.
C7_ClientCapsOnly ==
    (Sent /\ args.level = "client") =>
        /\ params["page_size"] = (IF args.n > 100 THEN 100 ELSE args.n)
        /\ params["page_size"] <= 100

\* C7 witness: a direct client call with page_size < 1 sent that value.
C7_Witness ==
    Sent /\ args.level = "client" /\ args.n < 1 /\ params["page_size"] = args.n

\* C8: for every envelope kind and every page, page_size, total, has_more is
\* true exactly when (page + 1) * page_size < total.
C8_HasMore ==
    envelope.has_more # "unread" =>
        (envelope.has_more = "True"
            <=> (envelope.page + 1) * envelope.page_size < envelope.total)

\* C8 witness: has_more was read as false on the boundary
\* (page + 1) * page_size = total, with a positive total.
C8_Witness ==
    /\ envelope.has_more = "False"
    /\ envelope.total > 0
    /\ (envelope.page + 1) * envelope.page_size = envelope.total

\* C9: a search tool called with an empty or whitespace-only query sends no
\* filter; with any other query it sends '<field>=match=' followed by the query
\* without its surrounding whitespace.
C9_QueryFilter ==
    (Sent /\ args.level = "tool") =>
        IF IsWhitespaceOnly(args.query.v)
        THEN "filter" \notin DOMAIN params
        ELSE /\ "filter" \in DOMAIN params
             /\ \E t \in Strings :
                   /\ IsTrimOf(t, args.query.v)
                   /\ params["filter"] = <<FilterField(args.op), "=match=">> \o t

\* C9 witness: a query with leading whitespace was sent trimmed.
C9_Witness ==
    /\ Sent /\ args.level = "tool"
    /\ args.query.v = <<" ", "a">>
    /\ params["filter"] = <<FilterField(args.op), "=match=", "a">>

\* C10 as stated: for a status >= 400 other than 401 the generic error's message
\* contains the status code and the detail field's text when the body is a JSON
\* object with one, else the message field's text when it has one, and in every
\* remaining case the raw response body.
C10_MessageAlwaysCarriesBody ==
    (reply.kind = "raise" /\ outcome.t = "response"
        /\ outcome.status >= 400 /\ outcome.status # 401) =>
        /\ HasToken(reply.msg, ToString(outcome.status))
        /\ LET b == outcome.body
           IN  IF b.isjson /\ b.kind = "object" /\ "detail" \in b.keys
               THEN HasToken(reply.msg, FieldText("detail"))
               ELSE IF b.isjson /\ b.kind = "object" /\ "message" \in b.keys
               THEN HasToken(reply.msg, FieldText("message"))
               ELSE HasToken(reply.msg, RawText)

\* The request of the run was made and returned a JSON object in which the
\* entity (a get-by-id tool) or the entities of the data list (a search tool)
\* have no "_id".
C11_EntityLacksId ==
    /\ output.ran /\ Len(output.requests) = 1
    /\ run.reply.kind = "ok" /\ run.reply.value.kind = "object"
    /\ IF run.tool \in SearchTools
       THEN run.reply.value.data = "no_id"
       ELSE run.reply.value.data = "absent" /\ ~run.reply.value.has_id

\* The request of the run was made and failed in the transport.
C11_TransportError ==
    output.ran /\ Len(output.requests) = 1 /\ run.reply.kind = "raise"

C11_GetByIdTools ==
    {"get_image_details", "get_certification_project_details", "get_operator_details"}

\* C11 as stated: a successful response whose entity lacks its identity field
\* makes each get-by-id tool and each of the four search tools return an error
\* text, one that differs from the text of a transport error.
C11_EveryToolReportsMissingId ==
    /\ (C11_EntityLacksId /\ run.tool \in C11_GetByIdTools \cup SearchTools) =>
          output.lines = <<Line("unexpected", "", 0, 0)>>
    /\ C11_TransportError =>
          output.lines = <<Line("pyxis_error", Doing(run.tool), 0, 0)>>

\* C11 as amended: the three get-by-id tools and the image, certification
\* project and operator search tools return "Unexpected error: ..." for an
\* entity without its identity field, and every tool returns
\* "Error <doing>: ..." for a transport error, so the two texts differ;
\* search_repositories validates nothing and lists such an entity.
C11_ValidatingToolsReportMissingId ==
    /\ (C11_EntityLacksId
           /\ run.tool \in C11_GetByIdTools \cup (SearchTools \ {"search_repositories"})) =>
          output.lines = <<Line("unexpected", "", 0, 0)>>
    /\ (C11_EntityLacksId /\ run.tool = "search_repositories") =>
          output.lines = <<Line("listing", "", 0, 0)>>
    /\ C11_TransportError =>
          output.lines = <<Line("pyxis_error", Doing(run.tool), 0, 0)>>

\* C11 witness: search_operators received entities without "_id" and returned
\* the "Unexpected error" text.
C11_Witness ==
    /\ C11_EntityLacksId /\ run.tool = "search_operators"
    /\ output.lines = <<Line("unexpected", "", 0, 0)>>

\* The entity path a get-by-id request is made under, and what follows the id.
C12_Path(tool) ==
    IF tool \in {"get_image_details", "get_image_vulnerabilities"} THEN "images/"
    ELSE IF tool = "get_certification_project_details" THEN "projects/certification/"
    ELSE "operators/"

C12_Suffix(tool) ==
    IF tool = "get_image_vulnerabilities" THEN <<"/vulnerabilities">> ELSE <<>>

C12_Argument(tool) ==
    IF tool \in {"get_image_details", "get_image_vulnerabilities"} THEN "image_id"
    ELSE IF tool = "get_certification_project_details" THEN "project_id"
    ELSE "operator_id"

\* C12: an id tool called with an empty or whitespace-only id returns
\* "Error: <argument> is required" and makes no request; called with any other
\* id, and given a client, it makes exactly one request, a GET of
\* <entity-path>/<id> (followed by /vulnerabilities for the vulnerabilities
\* tool) with no parameters, <id> being the id without its surrounding
\* whitespace.
C12_IdRequests ==
    (output.ran /\ run.tool \in IdTools) =>
        IF IsWhitespaceOnly(run.id)
        THEN /\ output.requests = <<>>
             /\ output.lines = <<Line("required", C12_Argument(run.tool), 0, 0)>>
        ELSE Truthy(run.env) =>
                /\ Len(output.requests) = 1
                /\ output.requests[1].method = "GET"
                /\ output.requests[1].params.none
                /\ \E t \in Strings :
                      /\ IsTrimOf(t, run.id)
                      /\ output.requests[1].endpoint =
                            <<C12_Path(run.tool)>> \o t \o C12_Suffix(run.tool)

\* C12 witness: get_image_vulnerabilities called with " a" requested
\* images/a/vulnerabilities.
C12_Witness ==
    /\ output.ran /\ run.tool = "get_image_vulnerabilities" /\ run.id = <<" ", "a">>
    /\ output.requests = <<Get(<<"images/", "a", "/vulnerabilities">>, NoParams)>>

\* The vulnerabilities the tool displays from: the first max_results of the
\* payload, max_results brought into 1..100.
C13_Displayed ==
    SubSeq(run.data, 1,
           IF run.max_results < 1 THEN Min(1, Len(run.data))
           ELSE Min(run.max_results, Len(run.data)))

\* The label of a severity, a missing (or empty) one counting as Unknown.
C13_Label(s) == IF s \in {NoSeverity, ""} THEN "Unknown" ELSE s

C13_Labels == {C13_Label(C13_Displayed[i]) : i \in 1..Len(C13_Displayed)}

C13_Known == {"Critical", "High", "Medium", "Low", "Unknown"}

\* C13: the severity headers of the output are, in this order, those of
\* Critical, High, Medium, Low, Unknown that occur among the displayed
\* vulnerabilities (a missing severity counting as Unknown), whatever the order
\* of the payload; every vulnerability printed is printed under its own
\* label, and one with any other severity is never printed.
C13_SeverityGroups ==
    (output.ran /\ run.data # <<>>) =>
        LET IsHeader(l) == l.t = "group"
            IsItem(l) == l.t = "item"
            IsOccurring(s) == s \in C13_Labels
            headers == SelectSeq(output.lines, IsHeader)
            items == SelectSeq(output.lines, IsItem)
            expected == SelectSeq(<<"Critical", "High", "Medium", "Low", "Unknown">>,
                                  IsOccurring)
        IN  /\ Len(headers) = Len(expected)
            /\ \A k \in 1..Len(headers) : headers[k].label = expected[k]
            /\ \A k \in 1..Len(items) :
                  /\ items[k].n \in 1..Len(C13_Displayed)
                  /\ items[k].label = C13_Label(C13_Displayed[items[k].n])
                  /\ items[k].label \in C13_Known
            /\ \A i \in 1..Len(C13_Displayed) :
                  C13_Label(C13_Displayed[i]) \notin C13_Known =>
                      ~\E k \in 1..Len(items) : items[k].n = i

\* C13 witness: a payload of a Low, a Moderate and a Critical vulnerability was
\* rendered under the headers Critical then Low, the Moderate one not printed.
C13_Witness ==
    /\ output.ran
    /\ run.data = <<"Low", "Moderate", "Critical">> /\ run.max_results = 3
    /\ LET IsHeader(l) == l.t = "group"
           IsItem(l) == l.t = "item"
       IN  /\ SelectSeq(output.lines, IsHeader) =
                 <<Line("group", "Critical", 1, 0), Line("group", "Low", 1, 0)>>
           /\ SelectSeq(output.lines, IsItem) =
                 <<Line("item", "Critical", 3, 0), Line("item", "Low", 1, 0)>>

\* The pairs a summary shows, and its "+N more" pieces.
C14_Pairs == LET IsPair(l) == l.t = "pair" IN SelectSeq(output.lines, IsPair)
C14_More == LET IsMore(l) == l.t = "more_repositories" IN SelectSeq(output.lines, IsMore)

\* C14 as stated: for every image with n repositories the summary shows
\* min(n, 3) registry/repository pairs, and when n > 3 it shows exactly 3 and
\* appends "+(n-3) more".
C14_ShowsMinOfThree ==
    output.ran =>
        LET n == Len(run.repositories)
        IN  /\ Len(C14_Pairs) = (IF n < 3 THEN n ELSE 3)
            /\ n > 3 => Len(C14_Pairs) = 3 /\ C14_More = <<Line("more_repositories", "", n - 3, 0)>>

\* C14 as amended: the summary shows one pair for each of the first min(n, 3)
\* repositories that has both a registry and a repository name, in their
\* order, so min(n, 3) pairs when all of those have both; "+(n-3) more" is
\* appended exactly when n > 3 and at least one pair is shown.
C14_ShowsCompleteOfFirstThree ==
    output.ran =>
        LET n == Len(run.repositories)
            first == IF n < 3 THEN n ELSE 3
            complete == {i \in 1..first :
                            run.repositories[i].registry /\ run.repositories[i].repository}
        IN  /\ Len(C14_Pairs) = Cardinality(complete)
            /\ \A k \in 1..Len(C14_Pairs) : C14_Pairs[k].n \in complete
            /\ \A k \in 1..(Len(C14_Pairs) - 1) : C14_Pairs[k].n < C14_Pairs[k + 1].n
            /\ complete = 1..first => Len(C14_Pairs) = first
            /\ IF n > 3 /\ complete # {}
               THEN C14_More = <<Line("more_repositories", "", n - 3, 0)>>
               ELSE C14_More = <<>>

\* C14 witness: of four repositories, the second without a registry, the
\* summary shows the first and the third and appends "+1 more".
C14_Witness ==
    /\ output.ran /\ Len(run.repositories) = 4
    /\ ~run.repositories[2].registry
    /\ C14_Pairs = <<Line("pair", "", 1, 0), Line("pair", "", 3, 0)>>
    /\ C14_More = <<Line("more_repositories", "", 1, 0)>>

\* The bullets of a search tool's text, and its "... and N more results
\* available" lines.
C15_Bullets == LET IsItem(l) == l.t = "item" IN SelectSeq(output.lines, IsItem)
C15_More == LET IsMore(l) == l.t = "more" IN SelectSeq(output.lines, IsMore)

\* C15: the listing of the image, certification-project and operator search
\* tools ends with "... and N more results available" exactly when
\* (page + 1) * page_size < total for the envelope returned, and N is then
\* total minus the number of entities shown.
C15_TrailingLine ==
    (output.ran /\ run.tool # "search_repositories" /\ C15_Bullets # <<>>) =>
        IF (run.page + 1) * run.page_size < run.total
        THEN /\ C15_More = <<Line("more", "results", run.total - Len(C15_Bullets), 0)>>
             /\ output.lines[Len(output.lines)].t = "more"
        ELSE C15_More = <<>>

\* C15 witness: search_operators listed one operator of three, page 0 of size
\* 1, and ended with "... and 2 more results available".
C15_Witness ==
    /\ output.ran /\ run.tool = "search_operators"
    /\ run.page = 0 /\ run.page_size = 1 /\ run.total = 3
    /\ Len(C15_Bullets) = 1
    /\ output.lines[Len(output.lines)] = Line("more", "results", 2, 0)

\* The <kind> of the "No <kind> found matching the specified criteria." text.
C16_Kind ==
    IF run.tool = "search_images" THEN "images"
    ELSE IF run.tool = "search_certification_projects" THEN "certification projects"
    ELSE IF run.tool = "search_operators" THEN "operators"
    ELSE "repositories"

\* C16: when the payload's data list is empty, or it has no data entry, the
\* text of each of the four search tools is the single line
\* "No <kind> found matching the specified criteria." and nothing else,
\* whatever total, page and page_size are.
C16_EmptyResult ==
    (output.ran /\ (~run.has_data \/ run.ndata = 0)) =>
        output.lines = <<Line("empty", C16_Kind, 0, 0)>>

\* C16 witness: search_repositories received an empty data list with a total
\* of 3 and returned only the "No repositories found" line.
C16_Witness ==
    /\ output.ran /\ run.tool = "search_repositories"
    /\ run.has_data /\ run.ndata = 0 /\ run.total = 3
    /\ output.lines = <<Line("empty", "repositories", 0, 0)>>

\* C17 as stated, for the search tools: whatever the size of the payload, a
\* search tool never prints more entities than max_results brought into 1..100.
C17_BulletsWithinMaxResults ==
    output.ran =>
        Len(C15_Bullets) <= (IF run.max_results < 1 THEN 1
                             ELSE IF run.max_results > 100 THEN 100
                             ELSE run.max_results)

\* C18 as stated: whenever one of the four search tools prints
\* "... and N more results available", N is at least 1.
C18_MoreIsPositive ==
    output.ran => \A k \in 1..Len(C15_More) : C15_More[k].n >= 1

\* C19: the shared reference only ever changes from unset to a client, never
\* back to unset nor to another client.  A tool that calls get_client() while
\* the reference is unset attempts the construction, on every such invocation:
\* without a credential the reference stays unset and the tool ends with the
\* error text; with one the reference becomes the client built from it.
C19_StartsConstruction(t) ==
    /\ _client = NoClient
    /\ tasks[t].pc \in {"idle", "done"}
    /\ tasks'[t] # tasks[t]
    /\ tasks'[t] # Done(0, Text("required"))

C19_SharedReferenceSetOnce ==
    [][ /\ _client # NoClient => _client' = _client
        /\ \A t \in Tasks :
              C19_StartsConstruction(t) =>
                  IF Truthy(env)
                  THEN /\ _client' # NoClient /\ _client'.api_key = env.v
                       /\ tasks'[t].pc = "awaiting"
                  ELSE /\ _client' = NoClient
                       /\ tasks'[t] = Done(0, Text("pyxis_error"))
      ]_vars

\* C19 witness: one invocation ended with the error text of a failed
\* construction, and a later one has set the shared reference.
C19_Witness ==
    /\ _client # NoClient
    /\ \E t \in Tasks : tasks[t] = Done(0, Text("pyxis_error"))

\* C20: search_images sends certified exactly when its certified argument is
\* true, and then with the value true; architecture and registry are each sent
\* exactly when the argument is non-empty once trimmed.
C20_ImageFilters ==
    (Sent /\ args.level = "tool" /\ args.op = "search_images") =>
        /\ "certified" \in DOMAIN params <=> args.certified.v
        /\ "certified" \in DOMAIN params => params["certified"] = TRUE
        /\ "architecture" \in DOMAIN params <=> ~IsWhitespaceOnly(args.architecture.v)
        /\ "registry" \in DOMAIN params <=> ~IsWhitespaceOnly(args.registry.v)

\* C20 witness: a call with certified false and a whitespace-only architecture
\* sent neither, and sent its registry.
C20_Witness ==
    /\ Sent /\ args.level = "tool" /\ args.op = "search_images"
    /\ ~args.certified.v /\ "certified" \notin DOMAIN params
    /\ args.architecture.v = <<" ">> /\ "architecture" \notin DOMAIN params
    /\ args.registry.v = <<"a">> /\ "registry" \in DOMAIN params

====
